---- MODULE Spec2Model ----
(***************************************************************************)
(* State-machine model of the first-aid quiz game (src/quiz.py): the       *)
(* question bank, the Content Provider boundary (AIAssistant), round       *)
(* construction (QuizGame.start_quiz), the answer / continue / retake      *)
(* handlers of QuizGame.handle_event and the difficulty adjustment.        *)
(*                                                                         *)
(* Python dictionaries are records with one field per key; a key that is   *)
(* absent from a dictionary holds the sentinel NoKey (integers) or NoTopic *)
(* (strings).  The items of QUESTION_BANK are shared objects: a round's    *)
(* list holds references to them (field bank = position in the bank), and  *)
(* the 'correct' key that handle_answer writes on them lives in the        *)
(* variable bank_correct, so that it survives the end of a round exactly   *)
(* as it does on the Python objects.  Generated items are fresh objects    *)
(* owned by the round's list and carry their 'correct' key inline.         *)
(***************************************************************************)
EXTENDS Integers, Sequences, FiniteSets, TLC

\* ---------------------------------------------------------------- bounds
\* number of rounds (calls of start_quiz) explored in one run
MaxRounds == 2
\* number of incorrect selections explored in one run
MaxWrong == 2
\* the states of module random explored when a round is built: those after
\* random.seed(0) .. random.seed(MaxSeed)
MaxSeed == 1

\* ------------------------------------------------------ program constants
total_questions_in_round == 10
num_ai_questions == 5
MinDifficulty == 1
MaxDifficulty == 3
\* the three list entries adjust_difficulty reads
RecentWindow == 3

\* absent dictionary key (integer-valued keys) / absent 'topic' key
NoKey == 0 - 100
NoTopic == "<no topic>"

\* ------------------------------------------------------------ QUESTION_BANK
BankItem(id, ans, diff, topic) ==
  [bank |-> id, question |-> id, nopts |-> 4, answer |-> ans,
   difficulty |-> diff, topic |-> topic, correct |-> NoKey]

QUESTION_BANK ==
  << BankItem(1, 2, 1, "unconsciousness"),
     BankItem(2, 1, 1, "wound care"),
     BankItem(3, 2, 1, "bleeding"),
     BankItem(4, 1, 1, "choking"),
     BankItem(5, 2, 1, "burns"),
     BankItem(6, 1, 2, "heart attack"),
     BankItem(7, 2, 2, "bleeding"),
     BankItem(8, 1, 2, "CPR"),
     BankItem(9, 2, 2, "seizures"),
     BankItem(10, 1, 2, "sprains"),
     BankItem(11, 2, 3, "shock"),
     BankItem(12, 2, 3, "stroke"),
     BankItem(13, 1, 3, "CPR"),
     BankItem(14, 1, 3, "allergic reactions"),
     BankItem(15, 1, 3, "spinal injuries") >>

BankIds == 1..Len(QUESTION_BANK)

\* ------------------------------------------------------------- JSON values
\* What json.loads can return, as far as start_quiz looks at it:
\*   type     the Python type of the value
\*   truthy   bool(value)
\*   hasq     the result of  'question' in value  (containers and strings)
\*   question, nopts, answer   the keys of an object (NoKey when absent);
\*            question is the text (a number standing for it), nopts the
\*            length of the 'options' list, answer the 'answer' index
JsonValue(type, truthy, hasq, question, nopts, answer) ==
  [type |-> type, truthy |-> truthy, hasq |-> hasq,
   question |-> question, nopts |-> nopts, answer |-> answer]

JObject(question, nopts, answer) ==
  JsonValue("object",
            question # NoKey \/ nopts # NoKey \/ answer # NoKey,
            question # NoKey, question, nopts, answer)

\* Python None: what the provider boundary returns for "unavailable"
PyNone == JsonValue("none", FALSE, FALSE, NoKey, NoKey, NoKey)
\* json.loads raising JSONDecodeError
DecodeError == JsonValue("error", FALSE, FALSE, NoKey, NoKey, NoKey)

ValidA == JObject(101, 4, 1)
ValidB == JObject(102, 4, 2)
\* an object without the 'question' key
NoQuestion == JObject(NoKey, 4, 1)
\* an object with 'question' but no 'options' and no 'answer'
QuestionOnly == JObject(103, NoKey, NoKey)
\* an object whose 'answer' is outside the option list
BadAnswer == JObject(104, 4, 7)
EmptyObject == JObject(NoKey, NoKey, NoKey)
\* ["question"]
ListWithQuestion == JsonValue("array", TRUE, TRUE, NoKey, NoKey, NoKey)
\* ["a", "b"]
ListOther == JsonValue("array", TRUE, FALSE, NoKey, NoKey, NoKey)
\* "What is the question?"
StringWithQuestion == JsonValue("string", TRUE, TRUE, NoKey, NoKey, NoKey)
\* 5
Number == JsonValue("number", TRUE, FALSE, NoKey, NoKey, NoKey)
\* null
JsonNull == JsonValue("none", FALSE, FALSE, NoKey, NoKey, NoKey)

\* ------------------------------------------------------- response texts
\* A response text is a sequence of chunks:
\*   "prose"  free text without braces or fences
\*   "space"  whitespace
\*   "fence"  the marker ```json
\*   "ticks"  the marker ```
\*   "json"   the text of one complete JSON value v
Chunk(k, v) == [k |-> k, v |-> v]
Prose == Chunk("prose", PyNone)
Space == Chunk("space", PyNone)
Fence == Chunk("fence", PyNone)
Ticks == Chunk("ticks", PyNone)
Json(v) == Chunk("json", v)

MinOf(S) == CHOOSE x \in S : \A y \in S : x <= y
MaxOf(S) == CHOOSE x \in S : \A y \in S : y <= x

IsFence(c) == c.k = "fence"
IsTick(c) == c.k \in {"fence", "ticks"}
HasBraces(c) == c.k = "json" /\ c.v.type = "object"
NotSpace(c) == c.k # "space"

\* positions in text of the markers ```json, of the markers ```, of the
\* chunks holding a brace, and of the chunks that are not whitespace
FencePositions(text) == {i \in 1..Len(text) : IsFence(text[i])}
TickPositions(text) == {i \in 1..Len(text) : IsTick(text[i])}
BracePositions(text) == {i \in 1..Len(text) : HasBraces(text[i])}
NonSpacePositions(text) == {i \in 1..Len(text) : NotSpace(text[i])}

\* text.split('```json')[1].split('```')[0]
FencedPart(text) ==
  LET f == MinOf(FencePositions(text))
      rest == SubSeq(text, f + 1, Len(text))
      stops == TickPositions(rest)
      stop == IF stops = {} THEN Len(rest) + 1 ELSE MinOf(stops)
  IN SubSeq(rest, 1, stop - 1)

\* text.strip()
Strip(text) ==
  LET keep == NonSpacePositions(text)
  IN IF keep = {} THEN <<>> ELSE SubSeq(text, MinOf(keep), MaxOf(keep))

\* json.loads: the value when the text is exactly one JSON value
\* (whitespace around it allowed), JSONDecodeError otherwise
JsonLoads(text) ==
  LET t == Strip(text)
  IN IF Len(t) = 1 /\ t[1].k = "json" THEN t[1].v ELSE DecodeError

\* AIAssistant._parse_json_from_response
parse_json_from_response(text0) ==
  LET text == IF FencePositions(text0) # {} THEN FencedPart(text0) ELSE text0
      strict == JsonLoads(text)
      braces == BracePositions(text)
  IN IF strict.type # "error" THEN strict
     ELSE IF braces # {}
          THEN LET inner == JsonLoads(SubSeq(text, MinOf(braces), MaxOf(braces)))
               IN IF inner.type # "error" THEN inner ELSE PyNone
          ELSE PyNone

\* A provider reply: generate_content either raises or returns a text.
Reply(raises, text) == [raises |-> raises, text |-> text]
Raises == Reply(TRUE, <<>>)
Text(t) == Reply(FALSE, t)

\* AIAssistant.generate_personalized_question, for a configured model
generate_personalized_question(reply) ==
  IF reply.raises THEN PyNone ELSE parse_json_from_response(reply.text)

\* ------------------------------------------------------------ input sets
\* The replies of the provider to one generate-question request that are
\* explored: one per path through generate_personalized_question,
\* _parse_json_from_response and the admission test of start_quiz.
Replies ==
  { Raises,
    Text(<<Prose>>),
    Text(<<>>),
    Text(<<Json(ValidA)>>),
    Text(<<Space, Json(ValidA), Space>>),
    Text(<<Prose, Fence, Space, Json(ValidA), Space, Ticks, Prose>>),
    Text(<<Prose, Fence, Prose, Ticks>>),
    Text(<<Prose, Json(ValidA), Prose>>),
    Text(<<Json(ValidA), Prose, Json(ValidB)>>),
    Text(<<Ticks, Json(ValidA), Ticks>>),
    Text(<<Json(NoQuestion)>>),
    Text(<<Json(EmptyObject)>>),
    Text(<<Json(QuestionOnly)>>),
    Text(<<Json(BadAnswer)>>),
    Text(<<Json(ListWithQuestion)>>),
    Text(<<Json(ListOther)>>),
    Text(<<Json(StringWithQuestion)>>),
    Text(<<Json(Number)>>),
    Text(<<Json(JsonNull)>>) }

\* What generate_personalized_question returns for these replies.
ProviderResults == {generate_personalized_question(rep) : rep \in Replies}

\* How many of the generation requests of one round get the chosen result
\* (the later requests of the round return None).
GoodCounts == {0, 2}

\* The results of the generation requests of one round, in order.
Scripts ==
  { [n \in 1..num_ai_questions |-> IF n <= k THEN v ELSE PyNone] :
      v \in ProviderResults, k \in GoodCounts }

\* The outcomes of module random. The program never seeds random, so a draw
\* can yield any outcome; explored are the outcomes of CPython's generator
\* when start_quiz is entered in the state random.seed(s) leaves, for s in
\* 0..MaxSeed. A generator fixes the outcome of each draw of one start_quiz:
\*   choice   the position in the pool that the j-th random.choice picks
\*   sample   for a pool of n items and k items needed, the positions in the
\*            pool in the order random.sample picks them
\*   shuffle  for the same n and k, the old position of each item of the
\*            shuffled list
PythonSeed0 ==
  [choice |-> << 14, 7, 13, 7, 1 >>,
   sample |->
        (<<15, 10>> :> << 14, 7, 13, 15, 1, 5, 9, 8, 4, 3, 2, 6, 10, 11, 12 >> @@
         <<15, 5>> :> << 14, 7, 13, 15, 1, 2, 3, 4, 5, 6, 8, 9, 10, 11, 12 >> @@
         <<14, 5>> :> << 7, 13, 14, 1, 5, 2, 3, 4, 6, 8, 9, 10, 11, 12, 15 >> @@
         <<13, 5>> :> << 13, 7, 1, 5, 9, 2, 3, 4, 6, 8, 10, 11, 12, 14, 15 >> @@
         <<12, 5>> :> << 7, 1, 5, 9, 8, 2, 3, 4, 6, 10, 11, 12, 13, 14, 15 >> @@
         <<11, 5>> :> << 1, 5, 9, 8, 4, 2, 3, 6, 7, 10, 11, 12, 13, 14, 15 >> @@
         <<10, 5>> :> << 5, 9, 8, 4, 3, 1, 2, 6, 7, 10, 11, 12, 13, 14, 15 >>),
   shuffle |->
        (<<15, 10>> :> << 7, 10, 1, 9, 3, 2, 5, 4, 6, 8, 11, 12, 13, 14, 15 >> @@
         <<15, 5>> :> << 2, 1, 10, 6, 7, 3, 4, 8, 9, 5, 11, 12, 13, 14, 15 >> @@
         <<14, 5>> :> << 2, 1, 5, 6, 4, 3, 10, 7, 8, 9, 11, 12, 13, 14, 15 >> @@
         <<13, 5>> :> << 9, 1, 6, 2, 10, 3, 4, 5, 7, 8, 11, 12, 13, 14, 15 >> @@
         <<12, 5>> :> << 10, 1, 4, 6, 2, 9, 3, 8, 5, 7, 11, 12, 13, 14, 15 >> @@
         <<11, 5>> :> << 3, 1, 4, 9, 7, 2, 10, 6, 8, 5, 11, 12, 13, 14, 15 >> @@
         <<10, 5>> :> << 7, 10, 1, 9, 3, 2, 5, 4, 6, 8, 11, 12, 13, 14, 15 >>)]

PythonSeed1 ==
  [choice |-> << 3, 10, 13, 2, 5 >>,
   sample |->
        (<<15, 10>> :> << 3, 10, 13, 2, 5, 12, 8, 9, 4, 6, 1, 7, 11, 14, 15 >> @@
         <<15, 5>> :> << 3, 10, 13, 2, 5, 1, 4, 6, 7, 8, 9, 11, 12, 14, 15 >> @@
         <<14, 5>> :> << 10, 13, 2, 5, 12, 1, 3, 4, 6, 7, 8, 9, 11, 14, 15 >> @@
         <<13, 5>> :> << 13, 2, 5, 12, 8, 1, 3, 4, 6, 7, 9, 10, 11, 14, 15 >> @@
         <<12, 5>> :> << 2, 5, 12, 8, 9, 1, 3, 4, 6, 7, 10, 11, 13, 14, 15 >> @@
         <<11, 5>> :> << 5, 2, 8, 9, 4, 1, 3, 6, 7, 10, 11, 12, 13, 14, 15 >> @@
         <<10, 5>> :> << 2, 8, 9, 4, 6, 1, 3, 5, 7, 10, 11, 12, 13, 14, 15 >>),
   shuffle |->
        (<<15, 10>> :> << 8, 6, 3, 5, 10, 1, 9, 2, 4, 7, 11, 12, 13, 14, 15 >> @@
         <<15, 5>> :> << 3, 5, 1, 10, 7, 6, 4, 9, 8, 2, 11, 12, 13, 14, 15 >> @@
         <<14, 5>> :> << 3, 7, 5, 1, 2, 4, 6, 9, 10, 8, 11, 12, 13, 14, 15 >> @@
         <<13, 5>> :> << 3, 6, 5, 4, 1, 2, 9, 7, 10, 8, 11, 12, 13, 14, 15 >> @@
         <<12, 5>> :> << 3, 5, 2, 6, 9, 10, 1, 4, 7, 8, 11, 12, 13, 14, 15 >> @@
         <<11, 5>> :> << 8, 6, 3, 5, 10, 1, 9, 2, 4, 7, 11, 12, 13, 14, 15 >> @@
         <<10, 5>> :> << 8, 6, 3, 5, 10, 1, 9, 2, 4, 7, 11, 12, 13, 14, 15 >>)]

PythonSeed2 ==
  [choice |-> << 14, 14, 1, 2, 2 >>,
   sample |->
        (<<15, 10>> :> << 14, 15, 1, 2, 12, 6, 3, 5, 9, 8, 4, 7, 10, 11, 13 >> @@
         <<15, 5>> :> << 14, 15, 1, 2, 12, 3, 4, 5, 6, 7, 8, 9, 10, 11, 13 >> @@
         <<14, 5>> :> << 14, 1, 2, 12, 6, 3, 4, 5, 7, 8, 9, 10, 11, 13, 15 >> @@
         <<13, 5>> :> << 1, 2, 12, 6, 3, 4, 5, 7, 8, 9, 10, 11, 13, 14, 15 >> @@
         <<12, 5>> :> << 2, 12, 6, 3, 5, 1, 4, 7, 8, 9, 10, 11, 13, 14, 15 >> @@
         <<11, 5>> :> << 2, 6, 3, 5, 9, 1, 4, 7, 8, 10, 11, 12, 13, 14, 15 >> @@
         <<10, 5>> :> << 6, 3, 5, 9, 8, 1, 2, 4, 7, 10, 11, 12, 13, 14, 15 >>),
   shuffle |->
        (<<15, 10>> :> << 9, 2, 5, 8, 7, 6, 10, 3, 1, 4, 11, 12, 13, 14, 15 >> @@
         <<15, 5>> :> << 10, 4, 7, 1, 2, 8, 9, 5, 3, 6, 11, 12, 13, 14, 15 >> @@
         <<14, 5>> :> << 6, 4, 10, 1, 7, 2, 8, 9, 5, 3, 11, 12, 13, 14, 15 >> @@
         <<13, 5>> :> << 6, 3, 8, 2, 7, 1, 9, 4, 10, 5, 11, 12, 13, 14, 15 >> @@
         <<12, 5>> :> << 8, 7, 3, 9, 2, 6, 10, 1, 4, 5, 11, 12, 13, 14, 15 >> @@
         <<11, 5>> :> << 8, 7, 3, 9, 2, 6, 5, 1, 4, 10, 11, 12, 13, 14, 15 >> @@
         <<10, 5>> :> << 9, 2, 5, 8, 7, 6, 10, 3, 1, 4, 11, 12, 13, 14, 15 >>)]

PythonSeed3 ==
  [choice |-> << 4, 10, 9, 3, 6 >>,
   sample |->
        (<<15, 10>> :> << 4, 10, 9, 3, 6, 14, 8, 2, 5, 1, 7, 11, 12, 13, 15 >> @@
         <<15, 5>> :> << 4, 10, 9, 3, 6, 1, 2, 5, 7, 8, 11, 12, 13, 14, 15 >> @@
         <<14, 5>> :> << 10, 9, 3, 6, 14, 1, 2, 4, 5, 7, 8, 11, 12, 13, 15 >> @@
         <<13, 5>> :> << 9, 3, 6, 10, 8, 1, 2, 4, 5, 7, 11, 12, 13, 14, 15 >> @@
         <<12, 5>> :> << 3, 6, 10, 8, 2, 1, 4, 5, 7, 9, 11, 12, 13, 14, 15 >> @@
         <<11, 5>> :> << 6, 10, 8, 2, 5, 1, 3, 4, 7, 9, 11, 12, 13, 14, 15 >> @@
         <<10, 5>> :> << 10, 8, 2, 5, 1, 3, 4, 6, 7, 9, 11, 12, 13, 14, 15 >>),
   shuffle |->
        (<<15, 10>> :> << 3, 1, 7, 9, 10, 6, 2, 4, 5, 8, 11, 12, 13, 14, 15 >> @@
         <<15, 5>> :> << 9, 6, 7, 3, 4, 1, 5, 2, 8, 10, 11, 12, 13, 14, 15 >> @@
         <<14, 5>> :> << 5, 6, 10, 9, 3, 4, 7, 1, 2, 8, 11, 12, 13, 14, 15 >> @@
         <<13, 5>> :> << 5, 6, 8, 9, 3, 4, 7, 1, 2, 10, 11, 12, 13, 14, 15 >> @@
         <<12, 5>> :> << 9, 4, 7, 6, 2, 5, 3, 8, 1, 10, 11, 12, 13, 14, 15 >> @@
         <<11, 5>> :> << 10, 7, 3, 4, 6, 2, 9, 5, 8, 1, 11, 12, 13, 14, 15 >> @@
         <<10, 5>> :> << 3, 1, 7, 9, 10, 6, 2, 4, 5, 8, 11, 12, 13, 14, 15 >>)]

PythonSeed4 ==
  [choice |-> << 4, 5, 2, 12, 7 >>,
   sample |->
        (<<15, 10>> :> << 4, 5, 2, 12, 7, 8, 3, 13, 1, 11, 6, 9, 10, 14, 15 >> @@
         <<15, 5>> :> << 4, 5, 2, 12, 7, 1, 3, 6, 8, 9, 10, 11, 13, 14, 15 >> @@
         <<14, 5>> :> << 5, 2, 12, 7, 8, 1, 3, 4, 6, 9, 10, 11, 13, 14, 15 >> @@
         <<13, 5>> :> << 2, 12, 7, 8, 3, 1, 4, 5, 6, 9, 10, 11, 13, 14, 15 >> @@
         <<12, 5>> :> << 12, 7, 8, 3, 2, 1, 4, 5, 6, 9, 10, 11, 13, 14, 15 >> @@
         <<11, 5>> :> << 7, 8, 3, 2, 1, 4, 5, 6, 9, 10, 11, 12, 13, 14, 15 >> @@
         <<10, 5>> :> << 8, 3, 2, 1, 7, 4, 5, 6, 9, 10, 11, 12, 13, 14, 15 >>),
   shuffle |->
        (<<15, 10>> :> << 4, 6, 8, 3, 2, 1, 10, 5, 9, 7, 11, 12, 13, 14, 15 >> @@
         <<15, 5>> :> << 10, 5, 6, 9, 4, 7, 1, 2, 3, 8, 11, 12, 13, 14, 15 >> @@
         <<14, 5>> :> << 8, 6, 7, 10, 5, 4, 1, 9, 2, 3, 11, 12, 13, 14, 15 >> @@
         <<13, 5>> :> << 6, 9, 7, 8, 3, 5, 4, 1, 10, 2, 11, 12, 13, 14, 15 >> @@
         <<12, 5>> :> << 8, 4, 6, 10, 9, 3, 5, 7, 1, 2, 11, 12, 13, 14, 15 >> @@
         <<11, 5>> :> << 4, 6, 8, 3, 2, 10, 9, 5, 7, 1, 11, 12, 13, 14, 15 >> @@
         <<10, 5>> :> << 4, 6, 8, 3, 2, 1, 10, 5, 9, 7, 11, 12, 13, 14, 15 >>)]

\* the generator in the state random.seed(s) leaves, tabulated for s in 0..4
PythonSeed(s) ==
  << PythonSeed0, PythonSeed1, PythonSeed2, PythonSeed3, PythonSeed4 >>[s + 1]

Generators == {PythonSeed(s) : s \in 0..MaxSeed}

\* the order a generator gives for a pool of n items and k items needed
\* (for the other sizes, the order it gives a standard round)
DrawOrder(t, n, k) ==
  IF <<n, k>> \in DOMAIN t THEN t[<<n, k>>]
  ELSE t[<<Len(QUESTION_BANK), total_questions_in_round>>]

\* The option buttons the user presses (0-based indices).
Clicks == {1, 2}

\* Outcomes of a free-text provider call (explanation, study plan): the
\* provider answers, or the call raises and the except branch is taken.
TextOutcomes == {"text", "raises"}

\* --------------------------------------------------------------- state
VARIABLES
  model,              \* ai_assistant.model is not None
  state, current_difficulty, questions, index, score, feedback_text,
  wrong_topics, ai_explanation, study_plan, last_user_answer,
  option_buttons,     \* len(self.option_buttons)
  ai_mode,
  bank_correct,       \* the 'correct' key of each QUESTION_BANK item
  error,              \* the exception that left handle_event, "none" if none
  selected,           \* the selected_index of each handle_answer of the round
  calls,              \* the provider requests made by the last handler
  rounds,             \* number of start_quiz calls so far
  wrongs,             \* number of incorrect selections so far
  lookup              \* a call of get_questions_by_difficulty: its arguments
                      \* and, once it has returned, its result

vars == << model, state, current_difficulty, questions, index, score,
           feedback_text, wrong_topics, ai_explanation, study_plan,
           last_user_answer, option_buttons, ai_mode, bank_correct, error,
           selected, calls, rounds, wrongs, lookup >>

\* A provider request, with the arguments the claims are about.
Call(op, difficulty, topics, sc, admitted) ==
  [op |-> op, difficulty |-> difficulty, topics |-> topics, score |-> sc,
   admitted |-> admitted]

\* ------------------------------------------------------- dictionaries
\* q['correct'] / 'correct' in q, for an entry q of a round's list
Flag(q, bc) == IF q.bank # 0 THEN bc[q.bank] ELSE q.correct

\* a == b for the dictionaries two entries refer to: the same keys with the
\* same values (bank is the object's identity, not a key)
DictEq(a, b, bc) ==
  /\ a.question = b.question
  /\ a.nopts = b.nopts
  /\ a.answer = b.answer
  /\ a.difficulty = b.difficulty
  /\ a.topic = b.topic
  /\ Flag(a, bc) = Flag(b, bc)

\* q in qs
InList(q, qs, bc) == \E i \in 1..Len(qs) : DictEq(q, qs[i], bc)

\* [q for q in QUESTION_BANK if q not in self.questions]
BankPool(qs, bc) ==
  SelectSeq(QUESTION_BANK, LAMBDA q : ~InList(q, qs, bc))

\* a filter that ignores the exclusion list
get_questions_by_difficulty_all(difficulty, exclude_list, bc) ==
  SelectSeq(QUESTION_BANK, LAMBDA q : q.difficulty = difficulty)

\* get_questions_by_difficulty
get_questions_by_difficulty(difficulty, exclude_list, bc) ==
  SelectSeq(QUESTION_BANK,
            LAMBDA q : q.difficulty = difficulty /\ ~InList(q, exclude_list, bc))

\* the item start_quiz appends for an admitted payload v:
\* ai_question['topic'] = 'ai_generated'
Generated(v) ==
  [bank |-> 0, question |-> v.question, nopts |-> v.nopts, answer |-> v.answer,
   difficulty |-> NoKey, topic |-> "ai_generated", correct |-> NoKey]

\* ---------------------------------------------------------- module random
\* random.choice(pool), the generator yielding position c (counted round
\* the pool)
random_choice(pool, c) == pool[((c - 1) % Len(pool)) + 1]

\* random.sample(pool, k), the generator picking the positions of the pool
\* in the given order
random_sample(pool, k, order) ==
  LET picked == SelectSeq(order, LAMBDA pos : pos <= Len(pool))
  IN [i \in 1..k |-> pool[picked[i]]]

\* random.shuffle(qs), the generator moving the item at position order[i]
\* to position i
random_shuffle(qs, order) ==
  LET from == SelectSeq(order, LAMBDA pos : pos <= Len(qs))
  IN [i \in 1..Len(qs) |-> qs[from[i]]]

\* ------------------------------------------------------ QuizGame methods
\* sum(recent_answers) for the flags of the entries qs[from..Len(qs)]
RECURSIVE SumFlags(_, _, _)
SumFlags(qs, bc, from) ==
  IF from > Len(qs) THEN 0 ELSE Flag(qs[from], bc) + SumFlags(qs, bc, from + 1)

\* the list positions adjust_difficulty reads: self.questions[-3:]
RecentPositions(qs) ==
  {i \in 1..Len(qs) : i > Len(qs) - RecentWindow}

\* [q['correct'] for q in self.questions[-3:] if 'correct' in q]
RecentAnswered(qs, bc) ==
  {i \in RecentPositions(qs) : Flag(qs[i], bc) # NoKey}

\* an increase test that forgets the upper limit
ShouldIncreaseUnbounded(d, correct) ==
  10 * correct > 7 * RecentWindow

\* performance > 0.7 and current_difficulty < 3
ShouldIncrease(d, correct) ==
  10 * correct > 7 * RecentWindow /\ d < MaxDifficulty

\* a decrease test that needs every flag read to be a miss
ShouldDecreaseAllMissed(d, correct) ==
  correct = 0 /\ d > MinDifficulty

\* performance < 0.4 and current_difficulty > 1
ShouldDecrease(d, correct) ==
  10 * correct < 4 * RecentWindow /\ d > MinDifficulty

\* QuizGame.adjust_difficulty: the new current_difficulty
adjust_difficulty(d, qs, bc) ==
  IF Len(qs) > RecentWindow /\ Cardinality(RecentAnswered(qs, bc)) = RecentWindow
  THEN LET correct == SumFlags(qs, bc, Len(qs) - RecentWindow + 1)
       IN IF ShouldIncrease(d, correct) THEN d + 1
          ELSE IF ShouldDecrease(d, correct) THEN d - 1
          ELSE d
  ELSE d

\* a next_question that returns to the home screen when the round is exhausted
next_question_to_home(idx, qs, buttons) ==
  LET i == idx + 1
  IN IF i >= Len(qs)
     THEN [index |-> i, state |-> "home", option_buttons |-> buttons,
           error |-> "none"]
     ELSE [index |-> i, state |-> "question",
           option_buttons |-> (IF qs[i + 1].nopts = NoKey THEN 0 ELSE qs[i + 1].nopts),
           error |-> (IF qs[i + 1].nopts = NoKey THEN "KeyError" ELSE "none")]

\* a next_question that ends the round one question early
next_question_one_short(idx, qs, buttons) ==
  LET i == idx + 1
  IN IF i >= Len(qs) - 1
     THEN [index |-> i, state |-> "summary", option_buttons |-> buttons,
           error |-> "none"]
     ELSE [index |-> i, state |-> "question",
           option_buttons |-> (IF qs[i + 1].nopts = NoKey THEN 0 ELSE qs[i + 1].nopts),
           error |-> (IF qs[i + 1].nopts = NoKey THEN "KeyError" ELSE "none")]

\* a next_question that leaves the index at the last question when the round
\* is exhausted
next_question_keep_index(idx, qs, buttons) ==
  LET i == idx + 1
  IN IF i >= Len(qs)
     THEN [index |-> idx, state |-> "summary", option_buttons |-> buttons,
           error |-> "none"]
     ELSE [index |-> i, state |-> "question",
           option_buttons |-> (IF qs[i + 1].nopts = NoKey THEN 0 ELSE qs[i + 1].nopts),
           error |-> (IF qs[i + 1].nopts = NoKey THEN "KeyError" ELSE "none")]

\* QuizGame.next_question from position idx: the new index, state and
\* option_buttons, and the KeyError of current_q["options"]
next_question(idx, qs, buttons) ==
  LET i == idx + 1
  IN IF i >= Len(qs)
     THEN [index |-> i, state |-> "summary", option_buttons |-> buttons,
           error |-> "none"]
     ELSE IF qs[i + 1].nopts = NoKey
     THEN [index |-> i, state |-> "question", option_buttons |-> 0,
           error |-> "KeyError"]
     ELSE [index |-> i, state |-> "question", option_buttons |-> qs[i + 1].nopts,
           error |-> "none"]

\* a start_quiz that resets the difficulty to the intermediate level
ResetDifficultyIntermediate == MinDifficulty + 1

\* the difficulty start_quiz resets to: self.current_difficulty = 1
ResetDifficulty == 1

\* a generation request issued with the difficulty the last round ended at
RequestDifficultyBeforeReset(before) == before

\* the difficulty passed to generate_personalized_question:
\* self.current_difficulty, read after start_quiz has reset it
RequestDifficulty(before) == ResetDifficulty

\* weak topics read after self.wrong_topics was cleared
WeakTopicsAfterClear(topics) == {}

\* weak_topics = list(set(self.wrong_topics)) if self.wrong_topics else None
\* (the empty set stands for None)
WeakTopics(topics) == {topics[i] : i \in 1..Len(topics)}

\* if ai_question and 'question' in ai_question: does the test raise?
\* ('question' in 5 is a TypeError)
AdmissionRaises(v) == v.truthy /\ v.type \in {"number", "bool"}

\* if ai_question and 'question' in ai_question
Admitted(v) == v.truthy /\ v.hasq

\* ai_question['topic'] = 'ai_generated' raises on a list or a string
TopicAssignRaises(v) == v.type # "object"

\* a fallback pool that does not exclude the items already in the list
FallbackPoolWholeBank(qs, bc) == QUESTION_BANK

\* fallback_pool = [q for q in QUESTION_BANK if q not in self.questions]
FallbackPool(qs, bc) == BankPool(qs, bc)

\* the generation loop of start_quiz from request n on: the list, the
\* requests made and the exception that ended it
RECURSIVE GenerationLoop(_, _, _, _, _, _, _, _)
GenerationLoop(n, qs, log, script, g, d, weak, bc) ==
  IF n > num_ai_questions
  THEN [questions |-> qs, calls |-> log, error |-> "none"]
  ELSE LET v == script[n]
           ok == ~AdmissionRaises(v) /\ Admitted(v) /\ ~TopicAssignRaises(v)
           log2 == Append(log, Call("generate_question", d, weak, NoKey, ok))
           pool == FallbackPool(qs, bc)
           \* the draws made so far: one for each bank item in the list
           j == Cardinality({i \in 1..Len(qs) : qs[i].bank # 0}) + 1
       IN IF AdmissionRaises(v)
          THEN [questions |-> qs, calls |-> log2, error |-> "TypeError"]
          ELSE IF Admitted(v)
          THEN IF TopicAssignRaises(v)
               THEN [questions |-> qs, calls |-> log2, error |-> "TypeError"]
               ELSE GenerationLoop(n + 1, Append(qs, Generated(v)), log2,
                                   script, g, d, weak, bc)
          ELSE IF Len(pool) > 0
          THEN GenerationLoop(n + 1,
                              Append(qs, random_choice(pool, g.choice[j])),
                              log2, script, g, d, weak, bc)
          ELSE GenerationLoop(n + 1, qs, log2, script, g, d, weak, bc)

\* a count of missing items that ignores the items already in the list
NeededIgnoringList(qs) == total_questions_in_round

\* needed = self.total_questions_in_round - len(self.questions)
Needed(qs) == total_questions_in_round - Len(qs)

\* the bank items start_quiz extends the list with
Backfill(qs, g, bc) ==
  LET bank_pool == BankPool(qs, bc)
  IN IF Len(bank_pool) < Needed(qs) THEN bank_pool
     ELSE random_sample(bank_pool, Needed(qs),
                        DrawOrder(g.sample, Len(bank_pool), Needed(qs)))

\* QuizGame.start_quiz(ai_mode = arg), the generation requests returning
\* script and module random drawing as the generator g
start_quiz(arg, script, g) ==
  LET ai == arg /\ model
      weak == WeakTopics(wrong_topics)
      \* the list after the generation loop, then extended and shuffled
      Round(loop) ==
        LET bank_pool == BankPool(loop.questions, bank_correct)
        IN random_shuffle(
             loop.questions \o Backfill(loop.questions, g, bank_correct),
             DrawOrder(g.shuffle, Len(bank_pool), Needed(loop.questions)))
  IN \E loop \in { IF ai
                   THEN GenerationLoop(1, <<>>, <<>>, script, g,
                                       RequestDifficulty(current_difficulty),
                                       weak, bank_correct)
                   ELSE [questions |-> <<>>, calls |-> <<>>,
                         error |-> "none"] } :
       /\ ai_mode' = ai
       /\ current_difficulty' = ResetDifficulty
       /\ calls' = loop.calls
       /\ rounds' = rounds + 1
       /\ IF loop.error # "none"
          THEN /\ questions' = loop.questions
               /\ error' = loop.error
               /\ UNCHANGED << index, score, wrong_topics, state,
                               option_buttons, selected >>
          ELSE \E qs \in { Round(loop) } :
               \E nq \in { next_question(0 - 1, qs, option_buttons) } :
                 /\ questions' = qs
                 /\ index' = nq.index
                 /\ score' = 0
                 /\ wrong_topics' = <<>>
                 /\ state' = nq.state
                 /\ option_buttons' = nq.option_buttons
                 /\ error' = nq.error
                 /\ selected' = <<>>
       /\ UNCHANGED << lookup, model, feedback_text, ai_explanation,
                       study_plan, last_user_answer, bank_correct, wrongs >>

\* selected_index == current_q["answer"]
IsCorrect(selected_index, q) == selected_index = q.answer

\* current_q["options"][current_q["answer"]] raises IndexError
AnswerOutOfRange(q) == q.answer >= q.nopts \/ q.answer < 0 - q.nopts

\* current_q['correct'] = v on the object the entry at position pos refers to
SetFlagInList(qs, pos, v) ==
  IF qs[pos].bank # 0 THEN qs ELSE [qs EXCEPT ![pos].correct = v]

\* a flag written on every bank item instead of the current one
SetFlagInWholeBank(bc, q, v) ==
  IF q.bank # 0 THEN [id \in BankIds |-> v] ELSE bc

SetFlagInBank(bc, q, v) ==
  IF q.bank # 0 THEN [bc EXCEPT ![q.bank] = v] ELSE bc

\* a score that counts every answer
ScoreAfterCountingAll(sc, selected_index, q) == sc + 1

\* self.score after an answer
ScoreAfter(sc, selected_index, q) ==
  IF IsCorrect(selected_index, q) THEN sc + 1 ELSE sc

\* a record of missed topics that keeps each topic once
TopicsAfterMissOnce(topics, q) ==
  IF q.topic # NoTopic /\ \A i \in 1..Len(topics) : topics[i] # q.topic
  THEN Append(topics, q.topic) ELSE topics

\* a record of missed topics that skips generated items
TopicsAfterMissBankOnly(topics, q) ==
  IF q.topic # NoTopic /\ q.bank # 0 THEN Append(topics, q.topic) ELSE topics

\* self.wrong_topics after an incorrect answer
TopicsAfterMiss(topics, q) ==
  IF q.topic # NoTopic THEN Append(topics, q.topic) ELSE topics

\* QuizGame.handle_answer(selected_index)
handle_answer(selected_index) ==
  LET q == questions[index + 1]
  IN /\ last_user_answer' = selected_index
     /\ selected' = Append(selected, selected_index)
     /\ IF q.answer = NoKey
        THEN /\ error' = "KeyError"
             /\ UNCHANGED << score, feedback_text, wrong_topics, questions,
                             bank_correct, state >>
        ELSE IF IsCorrect(selected_index, q)
        THEN /\ score' = ScoreAfter(score, selected_index, q)
             /\ feedback_text' = "Correct"
             /\ questions' = SetFlagInList(questions, index + 1, 1)
             /\ bank_correct' = SetFlagInBank(bank_correct, q, 1)
             /\ state' = "feedback"
             /\ UNCHANGED << wrong_topics, error >>
        ELSE /\ wrong_topics' = TopicsAfterMiss(wrong_topics, q)
             /\ score' = ScoreAfter(score, selected_index, q)
             /\ IF q.nopts = NoKey \/ AnswerOutOfRange(q)
                THEN /\ error' = (IF q.nopts = NoKey THEN "KeyError" ELSE "IndexError")
                     /\ UNCHANGED << feedback_text, questions, bank_correct, state >>
                ELSE /\ feedback_text' = "Incorrect"
                     /\ questions' = SetFlagInList(questions, index + 1, 0)
                     /\ bank_correct' = SetFlagInBank(bank_correct, q, 0)
                     /\ state' = "feedback"
                     /\ UNCHANGED error
     /\ wrongs' = IF IsCorrect(selected_index, q) THEN wrongs ELSE wrongs + 1
     /\ calls' = <<>>
     /\ UNCHANGED << lookup, model, current_difficulty, index, ai_explanation,
                     study_plan, option_buttons, ai_mode, rounds >>

\* AIAssistant.get_detailed_explanation: the string it returns
get_detailed_explanation(outcome) ==
  IF ~model THEN "AI explanation unavailable. Please check your API key setup."
  ELSE IF outcome = "raises" THEN "AI explanation unavailable due to an error."
  ELSE "explanation"

\* QuizGame.get_ai_explanation
get_ai_explanation(outcome) ==
  /\ ai_explanation' = get_detailed_explanation(outcome)
  /\ state' = "ai_explanation"
  /\ calls' = IF model
              THEN << Call("explanation", NoKey, {}, NoKey, FALSE) >>
              ELSE <<>>
  /\ UNCHANGED << lookup, model, current_difficulty, questions, index, score,
                  feedback_text, wrong_topics, study_plan, last_user_answer,
                  option_buttons, ai_mode, bank_correct, error, selected,
                  rounds, wrongs >>

\* AIAssistant.generate_study_plan: the string it returns
generate_study_plan(outcome) ==
  IF ~model THEN "AI study plan unavailable. Please check your API key setup."
  ELSE IF outcome = "raises" THEN "AI study plan unavailable due to an error."
  ELSE "study plan"

\* the message request_study_plan gives a round without a miss
NoWeakAreasMessage ==
  "You did great! No specific weak areas were identified. Keep up the good work!"

\* a request_study_plan that asks the provider for every round
request_study_plan_always(outcome) ==
  /\ study_plan' = generate_study_plan(outcome)
  /\ calls' = IF model
              THEN << Call("study_plan", NoKey, WeakTopics(wrong_topics),
                           score, FALSE) >>
              ELSE <<>>
  /\ state' = "study_plan"
  /\ UNCHANGED << lookup, model, current_difficulty, questions, index, score,
                  feedback_text, wrong_topics, ai_explanation, last_user_answer,
                  option_buttons, ai_mode, bank_correct, error, selected,
                  rounds, wrongs >>

\* QuizGame.request_study_plan
request_study_plan(outcome) ==
  /\ IF Len(wrong_topics) = 0
     THEN /\ study_plan' = NoWeakAreasMessage
          /\ calls' = <<>>
     ELSE /\ study_plan' = generate_study_plan(outcome)
          /\ calls' = IF model
                      THEN << Call("study_plan", NoKey, WeakTopics(wrong_topics),
                                   score, FALSE) >>
                      ELSE <<>>
  /\ state' = "study_plan"
  /\ UNCHANGED << lookup, model, current_difficulty, questions, index, score,
                  feedback_text, wrong_topics, ai_explanation, last_user_answer,
                  option_buttons, ai_mode, bank_correct, error, selected,
                  rounds, wrongs >>

\* self.adjust_difficulty(); self.next_question()
continue_pressed ==
  LET nq == next_question(index, questions, option_buttons)
  IN /\ current_difficulty' = adjust_difficulty(current_difficulty, questions, bank_correct)
     /\ index' = nq.index
     /\ state' = nq.state
     /\ option_buttons' = nq.option_buttons
     /\ error' = nq.error
     /\ calls' = <<>>
     /\ UNCHANGED << lookup, model, questions, score, feedback_text, wrong_topics,
                     ai_explanation, study_plan, last_user_answer, ai_mode,
                     bank_correct, selected, rounds, wrongs >>

\* ------------------------------------------- QuizGame.draw_summary_screen
\* the topics of the bank and of generated items, in the order sorted() gives
\* strings (upper case before lower case)
SortedTopics ==
  << "CPR", "ai_generated", "allergic reactions", "bleeding", "burns",
     "choking", "heart attack", "seizures", "shock", "spinal injuries",
     "sprains", "stroke", "unconsciousness", "wound care" >>

\* sorted(list(set(self.wrong_topics))): the focus areas of the summary view
focus_areas(topics) ==
  SelectSeq(SortedTopics, LAMBDA t : \E i \in 1..Len(topics) : topics[i] = t)

\* a top tier that starts above 0.8
summary_message_strict(sc, n) ==
  IF 10 * sc > 8 * n
  THEN "Excellent! You have strong first-aid knowledge!"
  ELSE IF 10 * sc >= 5 * n
  THEN "Good job! Review your weak areas for improvement."
  ELSE "Keep practicing! Consider the AI study plan."

\* performance = self.score / len(self.questions); the message shown
\* (>= 0.8 top tier, >= 0.5 middle tier)
summary_message(sc, n) ==
  IF 10 * sc >= 8 * n
  THEN "Excellent! You have strong first-aid knowledge!"
  ELSE IF 10 * sc >= 5 * n
  THEN "Good job! Review your weak areas for improvement."
  ELSE "Keep practicing! Consider the AI study plan."

\* ------------------------------------------------ QuizGame.handle_event
\* no call of get_questions_by_difficulty is made by the game itself
NoLookup ==
  [difficulty |-> MinDifficulty, exclude_list |-> <<>>, returned |-> <<>>,
   called |-> FALSE]

\* QuizGame.__init__: the attributes of a new game
InitGame ==
  /\ model \in BOOLEAN
  /\ state = "home"
  /\ current_difficulty = 1
  /\ questions = <<>>
  /\ index = 0 - 1
  /\ score = 0
  /\ feedback_text = ""
  /\ wrong_topics = <<>>
  /\ ai_explanation = ""
  /\ study_plan = ""
  /\ last_user_answer = 0 - 1
  /\ option_buttons = 0
  /\ ai_mode = FALSE
  /\ bank_correct = [i \in BankIds |-> NoKey]
  /\ error = "none"
  /\ selected = <<>>
  /\ calls = <<>>
  /\ rounds = 0
  /\ wrongs = 0

\* QuizGame.__init__
Init ==
  /\ lookup = NoLookup
  /\ InitGame

\* the event loop runs while no exception has left handle_event
Running == error = "none"

\* home: the start button
StartQuiz ==
  /\ Running /\ state = "home" /\ rounds < MaxRounds
  /\ \E g \in Generators :
       start_quiz(FALSE, [n \in 1..num_ai_questions |-> PyNone], g)

\* home: the AI mode button
StartAIMode ==
  /\ Running /\ state = "home" /\ model /\ rounds < MaxRounds
  /\ \E script \in Scripts, g \in Generators : start_quiz(TRUE, script, g)

\* question: option button i
SelectOption ==
  /\ Running /\ state = "question"
  /\ \E i \in Clicks :
       /\ i < option_buttons
       /\ IsCorrect(i, questions[index + 1]) \/ wrongs < MaxWrong
       /\ handle_answer(i)

\* an explanation button offered after every answer
ExplanationAvailableAfterAnyAnswer == model

\* if self.last_user_answer != self.questions[self.index]["answer"]
\*    and self.ai_assistant.model
ExplanationAvailable ==
  last_user_answer # questions[index + 1].answer /\ model

\* feedback: the explanation button
GetExplanation ==
  /\ Running /\ state = "feedback"
  /\ ExplanationAvailable
  /\ \E outcome \in TextOutcomes : get_ai_explanation(outcome)

\* feedback, ai_explanation: the continue button
Continue ==
  /\ Running /\ state \in {"feedback", "ai_explanation"}
  /\ continue_pressed

\* a study plan button offered without a configured model
StudyPlanAvailableWithoutModel == state = "summary"

\* if self.ai_assistant.model and self.study_plan_button.handle_event(event)
StudyPlanAvailable == model

\* summary: the study plan button
GetStudyPlan ==
  /\ Running /\ state = "summary" /\ StudyPlanAvailable
  /\ \E outcome \in TextOutcomes : request_study_plan(outcome)

\* a retake that always starts a standard round
RetakeStandard ==
  /\ Running /\ state \in {"summary", "study_plan"} /\ rounds < MaxRounds
  /\ \E g \in Generators :
       start_quiz(FALSE, [n \in 1..num_ai_questions |-> PyNone], g)

\* summary, study_plan: the retake button
Retake ==
  /\ Running /\ state \in {"summary", "study_plan"} /\ rounds < MaxRounds
  /\ IF ai_mode
     THEN \E script \in Scripts, g \in Generators :
            start_quiz(TRUE, script, g)
     ELSE \E g \in Generators :
            start_quiz(FALSE, [n \in 1..num_ai_questions |-> PyNone], g)

Next ==
  \/ StartQuiz
  \/ StartAIMode
  \/ SelectOption
  \/ GetExplanation
  \/ Continue
  \/ GetStudyPlan
  \/ Retake

Spec == Init /\ [][Next]_vars

\* The user keeps playing: an option is selected whenever a question is
\* shown, and continue is pressed whenever it is offered.
SpecFair == Spec /\ WF_vars(SelectOption) /\ WF_vars(Continue)

\* Standard rounds in which the user may miss any of the last LateWindow
\* questions of a round (the entries adjust_difficulty reads among them) and
\* answers the earlier ones correctly.
LateWindow == RecentWindow + 1

SelectOptionLate ==
  /\ Running /\ state = "question"
  /\ \E i \in Clicks :
       /\ i < option_buttons
       /\ IsCorrect(i, questions[index + 1]) \/ index >= Len(questions) - LateWindow
       /\ handle_answer(i)

NextLateMisses ==
  \/ StartQuiz
  \/ SelectOptionLate
  \/ Continue
  \/ Retake

SpecLateMisses == Init /\ [][NextLateMisses]_vars

\* get_questions_by_difficulty called on a new game, for every difficulty and
\* for exclusion lists of bank items, generated items and copies of bank
\* items.
\* a dictionary with the content of bank item id that is not that object
CopyOf(id, flag) == [QUESTION_BANK[id] EXCEPT !.bank = 0, !.correct = flag]

ExcludeEntries ==
  { QUESTION_BANK[1], QUESTION_BANK[6], QUESTION_BANK[11],
    Generated(ValidA), CopyOf(2, NoKey), CopyOf(7, 1) }

ExcludeLists ==
  {<<>>} \cup {<<a>> : a \in ExcludeEntries}
         \cup {<<a, b>> : a \in ExcludeEntries, b \in ExcludeEntries}

InitLookup ==
  /\ lookup \in { [difficulty |-> d, exclude_list |-> e, returned |-> <<>>,
                    called |-> FALSE] :
                    d \in MinDifficulty..MaxDifficulty, e \in ExcludeLists }
  /\ InitGame

Lookup ==
  /\ ~lookup.called
  /\ lookup' = [lookup EXCEPT
                  !.returned = get_questions_by_difficulty(
                                 lookup.difficulty, lookup.exclude_list,
                                 bank_correct),
                  !.called = TRUE]
  /\ UNCHANGED << model, state, current_difficulty, questions, index,
                  score, feedback_text, wrong_topics, ai_explanation,
                  study_plan, last_user_answer, option_buttons, ai_mode,
                  bank_correct, error, selected, calls, rounds, wrongs >>

NextLookup == Lookup

SpecLookup == InitLookup /\ [][NextLookup]_vars

\* Round construction alone, from the home screen, for every sequence of
\* results of the five generation requests.
\* (a result on which start_quiz raises ends the loop: the requests after
\* it are never made, and their results are written as None)
LoopRaises(v) == AdmissionRaises(v) \/ (Admitted(v) /\ TopicAssignRaises(v))

AllScripts ==
  { script \in [1..num_ai_questions -> ProviderResults] :
      \A n \in 1..num_ai_questions :
        (\E m \in 1..(n - 1) : LoopRaises(script[m])) => script[n] = PyNone }

StartAIModeAnyScript ==
  /\ Running /\ state = "home" /\ model /\ rounds < MaxRounds
  /\ \E script \in AllScripts, g \in Generators :
       start_quiz(TRUE, script, g)

NextRound ==
  \/ StartQuiz
  \/ StartAIModeAnyScript

SpecRound == Init /\ [][NextRound]_vars

\* ------------------------------------------------------------ properties
\* start_quiz has built a round: it was called and no exception left its
\* generation loop (TypeError is raised there only)
RoundBuilt == state # "home" /\ error # "TypeError"

\* the positions of the round's list that hold generated items
GeneratedPositions == {k \in 1..Len(questions) : questions[k].bank = 0}

\* the handler that ran was continue (adjust_difficulty, next_question)
IsContinueStep ==
  /\ state \in {"feedback", "ai_explanation"}
  /\ state' \in {"question", "summary"}

\* the three most recent selections of the round matched / missed the
\* correct index of their items
LastThreeCorrect ==
  /\ Len(selected) >= 3
  /\ \A k \in (Len(selected) - 2)..Len(selected) : selected[k] = questions[k].answer

LastThreeIncorrect ==
  /\ Len(selected) >= 3
  /\ \A k \in (Len(selected) - 2)..Len(selected) : selected[k] # questions[k].answer

\* C1: every round start_quiz builds (standard or adaptive, first round or
\* retake) holds min(10, items available) questions, that is exactly 10 with
\* the 15-item bank, and never more than 10.
C1_RoundLength ==
  RoundBuilt =>
    /\ Len(questions) = MinOf({10, Len(QUESTION_BANK) + Cardinality(GeneratedPositions)})
    /\ Len(questions) = 10

C1_Witness ==
  /\ rounds = 2 /\ ai_mode /\ state = "question" /\ index = 0
  /\ Cardinality(GeneratedPositions) = 2
  /\ Len(questions) = 10

\* C2: no two entries of a round's question list are equal dictionaries,
\* in adaptive mode too.
C2_NoDuplicates ==
  RoundBuilt =>
    \A i, j \in 1..Len(questions) :
      i # j => ~DictEq(questions[i], questions[j], bank_correct)

\* C3: no result of a generate-question request makes start_quiz or a later
\* step of the round end with an uncaught exception.
C3_NoUncaughtError == error = "none"

\* C4: a continue changes current_difficulty only when at least 3 questions
\* of the current round have recorded an answer.
C4_AdjustNeedsThreeAnswers ==
  [][(IsContinueStep /\ current_difficulty' # current_difficulty)
       => Len(selected) >= 3]_vars

\* C5: a continue pressed after 3 consecutive correct answers of the round
\* sets the difficulty to min(previous + 1, 3), and after 3 consecutive
\* incorrect answers to max(previous - 1, 1).
C5_ThreeInARow ==
  [][IsContinueStep =>
       /\ LastThreeCorrect =>
            current_difficulty' = MinOf({current_difficulty + 1, 3})
       /\ LastThreeIncorrect =>
            current_difficulty' = MaxOf({current_difficulty - 1, 1})]_vars

\* C6: current_difficulty is 1, 2 or 3 in every reachable state.
C6_DifficultyInRange == current_difficulty \in {1, 2, 3}

\* the difficulty is at its maximum after three or more continues of a round
C6_Witness == current_difficulty = 3 /\ state = "question" /\ index >= 3

\* C7 as stated: current_difficulty changes only when continue is pressed on
\* the feedback or explanation screen.
C7_OnlyContinueChanges ==
  [][current_difficulty' # current_difficulty
       => state \in {"feedback", "ai_explanation"}]_vars

\* C7 amended: current_difficulty changes only when continue is pressed or
\* when a round is constructed (start quiz, start AI mode, retake), which
\* resets it to 1; selecting an option, get explanation and get study plan
\* leave it unchanged.
C7_ContinueOrReset ==
  [][current_difficulty' # current_difficulty =>
       \/ IsContinueStep
       \/ /\ state \in {"home", "summary", "study_plan"}
          /\ rounds' = rounds + 1
          /\ current_difficulty' = 1]_vars

\* get study plan has run on a round that ended with a raised difficulty
C7_Witness == state = "study_plan" /\ current_difficulty = 2

\* C8: score is the number of answered questions of the round whose selected
\* index equals the item's correct index, and at the summary every question
\* of the round has been answered.
C8_ScoreIsCorrectCount ==
  RoundBuilt =>
    /\ score = Cardinality({k \in 1..Len(selected) :
                              selected[k] = questions[k].answer})
    /\ state \in {"summary", "study_plan"} => Len(selected) = Len(questions)

\* the second round was built and played to the summary with one miss
C8_Witness ==
  /\ RoundBuilt /\ state = "summary" /\ rounds = 2
  /\ score = 9 /\ Len(selected) = 10

\* C9: every generated item of a round has a question text, exactly 4
\* options and a correct index within 0..3.
C9_GeneratedItemsValid ==
  RoundBuilt =>
    \A k \in GeneratedPositions :
      /\ questions[k].question # NoKey
      /\ questions[k].nopts = 4
      /\ questions[k].answer \in 0..3

\* C10: in an adaptive round every generation request contributes one item,
\* the generated one when it was admitted and a bank item not yet in the
\* round otherwise; the round holds at most 5 generated items, no bank item
\* twice, and 10 items.
C10_AdaptiveFill ==
  (RoundBuilt /\ ai_mode) =>
    /\ Len(questions) = 10
    /\ Cardinality(GeneratedPositions) <= 5
    /\ \A i, j \in 1..Len(questions) :
         (i # j /\ questions[i].bank # 0) => questions[i].bank # questions[j].bank
    /\ Len(calls) = 5 =>
         Cardinality(GeneratedPositions)
           = Cardinality({n \in 1..5 : calls[n].admitted})

C10_Witness ==
  /\ ai_mode /\ state = "question" /\ Len(calls) = 5
  /\ calls[1].admitted /\ ~calls[2].admitted /\ calls[3].admitted
  /\ ~calls[4].admitted /\ ~calls[5].admitted
  /\ Cardinality(GeneratedPositions) = 2

\* C11: without a configured model (model is None) the adaptive-mode flag is
\* false, the explanation and study-plan screens are never shown, no provider
\* request is made, no exception ends the application, and every round holds
\* 10 bank items; the standard round runs to the summary (C11_Witness).
C11_UnconfiguredProvider ==
  ~model =>
    /\ ai_mode = FALSE
    /\ state \notin {"ai_explanation", "study_plan"}
    /\ calls = <<>>
    /\ ai_explanation = "" /\ study_plan = ""
    /\ error = "none"
    /\ state # "home" =>
         /\ Len(questions) = 10
         /\ \A k \in 1..Len(questions) : questions[k].bank \in BankIds

\* a standard round without a model was played to the summary, with a miss
C11_Witness ==
  /\ ~model /\ state = "summary" /\ Len(selected) = 10
  /\ Len(wrong_topics) > 0

\* the screen transitions of section 4.2
AllowedTransitions ==
  { <<"home", "question">>, <<"question", "feedback">>,
    <<"feedback", "ai_explanation">>, <<"feedback", "question">>,
    <<"feedback", "summary">>, <<"ai_explanation", "question">>,
    <<"ai_explanation", "summary">>, <<"summary", "question">>,
    <<"summary", "study_plan">>, <<"study_plan", "question">> }

\* C12: every step that changes the screen state follows one of the allowed
\* transitions, and home is never re-entered once left.
C12_AllowedTransitions ==
  [][/\ state' # state => <<state, state'>> \in AllowedTransitions
     /\ state' = "home" => state = "home"]_vars

\* a second round was started from the study-plan screen after an
\* explanation had been shown: the rarer transitions have been taken
C12_Witness ==
  /\ state = "question" /\ rounds = 2 /\ study_plan # "" /\ ai_explanation # ""

\* C13: the explanation screen is entered only from the feedback screen, only
\* when the last selected option differs from the item's correct index and
\* the model is configured; after a correct answer the only step possible on
\* the feedback screen is continue.
C13_ExplanationOnlyAfterMiss ==
  [][/\ (state' = "ai_explanation" /\ state # "ai_explanation") =>
          /\ state = "feedback"
          /\ last_user_answer # questions[index + 1].answer
          /\ model
     /\ (state = "feedback" /\ last_user_answer = questions[index + 1].answer) =>
          IsContinueStep]_vars

\* the explanation screen is shown for a missed question
C13_Witness ==
  /\ state = "ai_explanation" /\ ai_explanation = "explanation"
  /\ last_user_answer # questions[index + 1].answer

\* every item of the round can be shown and answered: it has options and a
\* correct index among them
RoundPlayable ==
  \A k \in 1..Len(questions) :
    /\ questions[k].nopts # NoKey
    /\ questions[k].answer \in 0..(questions[k].nopts - 1)

\* C14: continue leads to the summary if and only if the question just
\* answered was the last of the round, otherwise to the next question; at
\* the summary the round has as many answers as questions; and when the user
\* keeps selecting an option and pressing continue, a round whose items can
\* all be shown and answered reaches the summary.
C14_RoundEndsWhenExhausted ==
  /\ [][IsContinueStep =>
          /\ state' = "summary" <=> index + 1 = Len(questions)
          /\ state' = "question" => index' = index + 1]_vars
  /\ []((RoundBuilt /\ state = "summary") => Len(selected) = Len(questions))
  /\ (Running /\ state = "question" /\ RoundPlayable) ~> (state = "summary")

\* the summary of a second, adaptive round is reached after ten answers
C14_Witness ==
  /\ state = "summary" /\ rounds = 2 /\ ai_mode /\ Len(selected) = 10
  /\ Cardinality(GeneratedPositions) = 2

\* C15: a retake from the summary or the study-plan screen whose start_quiz
\* gets through its generation loop starts a round with the adaptive-mode
\* flag of the round just finished, score 0, the position at the first
\* question, an empty weak-topics list, no recorded answer and the state
\* question.
C15_RetakeResets ==
  [][(/\ state \in {"summary", "study_plan"}
      /\ rounds' = rounds + 1
      /\ error' # "TypeError") =>
       /\ ai_mode' = ai_mode
       /\ score' = 0
       /\ index' = 0
       /\ wrong_topics' = <<>>
       /\ selected' = <<>>
       /\ state' = "question"]_vars

\* an adaptive round has been retaken after a round with a miss
C15_Witness ==
  /\ rounds = 2 /\ ai_mode /\ state = "question" /\ index = 0
  /\ score = 0 /\ wrong_topics = <<>>
  /\ \E id \in BankIds : bank_correct[id] = 0
  /\ \E id \in BankIds : bank_correct[id] = 1

\* the handler that ran was handle_answer, on an item with a correct index
IsAnswerStep ==
  /\ state = "question" /\ selected' # selected
  /\ questions[index + 1].answer # NoKey

\* C16: an incorrect answer to an item with a topic appends that topic once
\* to wrong_topics (a topic missed on two items is listed twice), a correct
\* answer leaves the list unchanged, and the summary view and the study-plan
\* request use each missed topic once.
C16_MissedTopicsRecorded ==
  /\ [][IsAnswerStep =>
          IF last_user_answer' = questions[index + 1].answer
          THEN wrong_topics' = wrong_topics
          ELSE questions[index + 1].topic # NoTopic =>
                 wrong_topics' = Append(wrong_topics, questions[index + 1].topic)]_vars
  /\ [](state \in {"summary", "study_plan"} =>
          LET shown == focus_areas(wrong_topics)
          IN /\ \A i, j \in 1..Len(shown) : i # j => shown[i] # shown[j]
             /\ \A i \in 1..Len(wrong_topics) :
                  \E j \in 1..Len(shown) : shown[j] = wrong_topics[i]
             /\ \A j \in 1..Len(shown) :
                  \E i \in 1..Len(wrong_topics) : wrong_topics[i] = shown[j])
  /\ []((state = "study_plan" /\ Len(calls) > 0 /\ calls[1].op = "study_plan") =>
          calls[1].topics = {wrong_topics[i] : i \in 1..Len(wrong_topics)})

\* a study plan was requested for a round in which one topic was missed on
\* two different bank items
C16_Witness ==
  /\ state = "study_plan" /\ Len(calls) = 1
  /\ wrong_topics = << "bleeding", "bleeding" >>
  /\ focus_areas(wrong_topics) = << "bleeding" >>

\* C17: get study plan on the summary screen moves to the study-plan screen;
\* when wrong_topics is empty the plan is the fixed encouraging message
\* and no provider request was made, otherwise exactly one study-plan request
\* was made, with each missed topic once and the round's final score.
C17_StudyPlanRequest ==
  [][(state = "summary" /\ study_plan' # study_plan) =>
       /\ state' = "study_plan"
       /\ score' = score /\ wrong_topics' = wrong_topics
       /\ IF Len(wrong_topics) = 0
          THEN /\ study_plan' = NoWeakAreasMessage
               /\ calls' = <<>>
          ELSE /\ Len(calls') = 1
               /\ calls'[1].op = "study_plan"
               /\ calls'[1].topics = {wrong_topics[i] : i \in 1..Len(wrong_topics)}
               /\ calls'[1].score = score
               /\ score = Cardinality({k \in 1..Len(selected) :
                                         selected[k] = questions[k].answer})
               /\ study_plan' # NoWeakAreasMessage]_vars

\* the fixed message is shown for a round without a miss
C17_Witness ==
  /\ state = "study_plan" /\ wrong_topics = <<>> /\ score = 10
  /\ study_plan = NoWeakAreasMessage /\ calls = <<>>

\* C18: at the summary of a round the top-tier message is shown exactly when
\* score / round length >= 0.8 (8, 9 or 10 of 10); a round of bank items
\* answered all correctly ends with score 10 of 10, no weak topic and the
\* top-tier message.
C18_SummaryMessage ==
  state = "summary" =>
    /\ Len(questions) = 10
    /\ summary_message(score, Len(questions))
           = "Excellent! You have strong first-aid knowledge!"
         <=> score \in {8, 9, 10}
    /\ (/\ \A k \in 1..Len(questions) : questions[k].bank \in BankIds
        /\ \A k \in 1..Len(selected) : selected[k] = questions[k].answer) =>
         /\ score = 10
         /\ wrong_topics = <<>>
         /\ summary_message(score, Len(questions))
              = "Excellent! You have strong first-aid knowledge!"

\* the summary of a round answered all correctly
C18_Witness ==
  /\ state = "summary" /\ score = 10 /\ Len(selected) = 10
  /\ wrong_topics = <<>>
  /\ \A k \in 1..Len(selected) : selected[k] = questions[k].answer

\* the summary of a round just below the top tier
C18_BelowTopTier ==
  /\ state = "summary" /\ score = 7
  /\ summary_message(score, Len(questions))
       = "Good job! Review your weak areas for improvement."

\* the flags adjust_difficulty reads are all present
ThreeFlagsRead ==
  /\ Len(questions) > 3
  /\ \A k \in (Len(questions) - 2)..Len(questions) :
       Flag(questions[k], bank_correct) \in {0, 1}

\* the number of those flags that record a correct answer
FlagsCorrect ==
  Cardinality({k \in (Len(questions) - 2)..Len(questions) :
                 Flag(questions[k], bank_correct) = 1})

\* C20: when the adjustment reads 3 flags, 3 of 3 correct raises the
\* difficulty by 1 unless it is 3, 0 or 1 of 3 correct lowers it by 1 unless
\* it is 1, and 2 of 3 correct leaves it unchanged; an adjustment never
\* changes the difficulty by more than 1.
C20_Thresholds ==
  [][IsContinueStep =>
       /\ ThreeFlagsRead =>
            /\ FlagsCorrect = 3 =>
                 current_difficulty' =
                   IF current_difficulty = 3 THEN 3 ELSE current_difficulty + 1
            /\ FlagsCorrect \in {0, 1} =>
                 current_difficulty' =
                   IF current_difficulty = 1 THEN 1 ELSE current_difficulty - 1
            /\ FlagsCorrect = 2 => current_difficulty' = current_difficulty
       /\ current_difficulty' - current_difficulty \in {0 - 1, 0, 1}]_vars

\* the difficulty, raised to 3 earlier in the round, was lowered to 2 by the
\* continue after the second of two misses (1 of 3 flags correct)
C20_Witness ==
  /\ state = "question" /\ index = 9 /\ current_difficulty = 2
  /\ ThreeFlagsRead /\ FlagsCorrect = 1

\* C19: get_questions_by_difficulty(d, exclude) returns exactly the bank
\* items whose difficulty is d and that are not in the exclusion list, each
\* once: no item of another difficulty, no excluded item, no eligible item
\* omitted.
C19_FilterExact ==
  lookup.called =>
    LET d == lookup.difficulty
        e == lookup.exclude_list
        res == lookup.returned
    IN /\ \A i \in 1..Len(res) :
            /\ res[i].bank \in BankIds
            /\ res[i] = QUESTION_BANK[res[i].bank]
            /\ res[i].difficulty = d
            /\ \A j \in 1..Len(e) : ~DictEq(res[i], e[j], bank_correct)
       /\ \A id \in BankIds :
            (/\ QUESTION_BANK[id].difficulty = d
             /\ \A j \in 1..Len(e) : ~DictEq(QUESTION_BANK[id], e[j], bank_correct))
              => \E i \in 1..Len(res) : res[i].bank = id
       /\ \A i, j \in 1..Len(res) : i # j => res[i].bank # res[j].bank

\* the call returned the four level-1 items left after excluding one by
\* identity; a level-2 entry of the list excluded nothing at this level
C19_Witness ==
  /\ lookup.called /\ lookup.difficulty = 1
  /\ lookup.exclude_list = << QUESTION_BANK[1], QUESTION_BANK[6] >>
  /\ Len(lookup.returned) = 4

\* the item at list position k without its 'correct' flag
ItemContent(q) == [q EXCEPT !.correct = NoKey]

\* C21: between two start_quiz calls the round's list keeps its items and
\* their order: selecting an option, get explanation, continue and get study
\* plan change no item, and the 'correct' flag changes only for the item at
\* the current position, when an option is selected.
C21_RoundListFixed ==
  [][rounds' = rounds =>
       /\ Len(questions') = Len(questions)
       /\ \A k \in 1..Len(questions) :
            /\ ItemContent(questions'[k]) = ItemContent(questions[k])
            /\ Flag(questions'[k], bank_correct') # Flag(questions[k], bank_correct)
                 => (k = index + 1 /\ state = "question")
       /\ \A id \in BankIds :
            bank_correct'[id] # bank_correct[id] =>
              (state = "question" /\ questions[index + 1].bank = id)]_vars

\* the flag of a generated item at the current position was set by a miss
\* in an adaptive round, after an explanation and a continue earlier on
C21_Witness ==
  /\ state = "feedback" /\ ai_mode /\ index >= 1
  /\ questions[index + 1].bank = 0 /\ questions[index + 1].correct = 0
  /\ ai_explanation # ""

\* the handler that ran was start_quiz
IsStartQuizStep == rounds' = rounds + 1

\* C22: every generation request of a round construction carries as focus
\* hint the set of topics in wrong_topics when start_quiz was called, before
\* the list is cleared: the topics missed in the round just finished on a
\* retake, none (None) when nothing was missed or when the round is started
\* from home; an adaptive construction that is not cut short makes 5
\* requests, a standard one makes none.
C22_FocusHint ==
  [][IsStartQuizStep =>
       /\ \A n \in 1..Len(calls') :
            /\ calls'[n].op = "generate_question"
            /\ calls'[n].topics = {wrong_topics[i] : i \in 1..Len(wrong_topics)}
            /\ state = "home" => calls'[n].topics = {}
       /\ (ai_mode' /\ error' # "TypeError") => Len(calls') = num_ai_questions
       /\ ~ai_mode' => calls' = <<>>
       /\ error' # "TypeError" => wrong_topics' = <<>>]_vars

\* an adaptive retake after a round with two misses on one topic: the five
\* requests carry that topic once, and the list has been cleared
C22_Witness ==
  /\ rounds = 2 /\ ai_mode /\ state = "question" /\ index = 0
  /\ Len(calls) = 5 /\ wrongs = 2 /\ wrong_topics = <<>>
  /\ \A n \in 1..5 : Cardinality(calls[n].topics) = 1

\* C23: while no exception has left start_quiz's generation loop, index is
\* -1 on home, within 0..len(questions)-1 on question, feedback and
\* ai_explanation, and len(questions) on summary and study_plan.
C23_IndexMatchesScreen ==
  error # "TypeError" =>
    /\ state = "home" => index = 0 - 1
    /\ state \in {"question", "feedback", "ai_explanation"} =>
         (0 <= index /\ index < Len(questions))
    /\ state \in {"summary", "study_plan"} => index = Len(questions)
    /\ state \in {"home", "question", "feedback", "ai_explanation", "summary",
                   "study_plan"}

\* the study-plan screen of a second round
C23_Witness ==
  /\ state = "study_plan" /\ rounds = 2 /\ index = 10 /\ Len(questions) = 10

\* C24: while the application runs, score + len(wrong_topics) is the number
\* of questions of the round answered so far (the questions before the
\* current position, and the current one once its feedback is shown), and
\* 0 <= score <= number answered <= len(questions).
C24_ScorePlusMisses ==
  Running =>
    /\ score + Len(wrong_topics) = Len(selected)
    /\ 0 <= score /\ score <= Len(selected)
    /\ Len(selected) <= Len(questions)
    /\ state = "home" => Len(selected) = 0
    /\ state = "question" => Len(selected) = index
    /\ state \in {"feedback", "ai_explanation"} => Len(selected) = index + 1
    /\ state \in {"summary", "study_plan"} => Len(selected) = Len(questions)

\* an adaptive round with one generated and one bank item missed
C24_Witness ==
  /\ state = "summary" /\ ai_mode /\ score = 8 /\ Len(wrong_topics) = 2
  /\ \E i \in 1..2 : wrong_topics[i] = "ai_generated"
  /\ \E i \in 1..2 : wrong_topics[i] # "ai_generated"

\* C25: every generate-question request is issued with difficulty 1, also on
\* a retake after the difficulty was raised, and only start_quiz issues such
\* requests.
C25_GenerationAtLevelOne ==
  /\ [](\A n \in 1..Len(calls) :
          calls[n].op = "generate_question" => calls[n].difficulty = 1)
  /\ [][(/\ calls' # calls
         /\ \E n \in 1..Len(calls') : calls'[n].op = "generate_question")
          => IsStartQuizStep]_vars

\* an adaptive retake after a round answered all correctly, whose last
\* continue had raised the difficulty to 2: the five requests were issued
\* with difficulty 1
C25_Witness ==
  /\ rounds = 2 /\ ai_mode /\ state = "question" /\ index = 0 /\ wrongs = 0
  /\ \E id \in BankIds : bank_correct[id] = 1
  /\ Len(calls) = 5
  /\ \A n \in 1..5 : calls[n].op = "generate_question" /\ calls[n].difficulty = 1

====
